---- MODULE Spec2Model ----
(***************************************************************************)
(* Model of ts-simple-cache (src/ttl-cache.ts).                            *)
(*                                                                         *)
(*   TTLCache                 an insertion-ordered Map of key ->           *)
(*                            {value, expireAt} with lazy expiry on read   *)
(*                            and first-key eviction at maxSize.           *)
(*   TTLCacheBackedWithFetch  a TTLCache plus the pendingFetches registry; *)
(*                            get() launches fetchData(key) and chains     *)
(*                            .then / .catch / .finally on its promise.    *)
(*   TTLCacheWithBatchFetch   a TTLCache replaced as a whole by fetchAll(), *)
(*                            on start, on an interval and on demand.      *)
(*                                                                         *)
(* JavaScript runs every synchronous call to completion; each promise      *)
(* reaction (then handler, catch handler, finally handler, resumption of   *)
(* an awaiting caller) is a job of its own, and other jobs may run between *)
(* two of them.  Each action below is one such run-to-completion step.     *)
(***************************************************************************)
EXTENDS Integers, Sequences, FiniteSets, TLC

\* ---------------------------------------------------------------- bounds
MaxKey == 1
MaxTime == 2
MaxCalls == 2                \* get calls suspended at a time
MaxFetches == 2              \* fetch chains unfinished at a time

Keys == 0 .. MaxKey          \* key 0 is the falsy key (0, "")
Values == {1, 2}
TTLs == {-1, 0, 1}           \* explicit per-set ttl overrides (options.ttl)
DefaultTTLs == {1}           \* configured defaultTTL
MaxSizes == {0, 1, 2}        \* 0: maxSize absent (undefined) or 0, both falsy
NoTTL == << >>               \* set() called without options.ttl
TTLOptions == {NoTTL} \cup {<<t>> : t \in TTLs}
FetchValues == {1}           \* data a fetch may deliver
SetValues == {2}             \* values written by the loader's manual set
LoaderTTLOptions == {NoTTL}  \* the loader's manual set, without options.ttl
LoaderMaxSizes == {0}
LoaderKeys == {0, 1}         \* the keys the loader's set and delete are called with
GetKeys == {1}               \* the keys read through the loader (get, getSync)
BatchMaxSizes == {0, 1}      \* maxSize of the batch loader's store
BatchKeys == {0, 1}          \* the keys the batch loader writes and deletes
RefreshIntervals == {0, 1}   \* configured refreshInterval
NoOption == << >>            \* an option the caller left out
RefreshIntervalOptions == {NoOption} \cup {<<i>> : i \in RefreshIntervals}
FetchOnStartOptions == {NoOption, <<TRUE>>, <<FALSE>>}
DefaultRefreshInterval == 300000   \* 5 * 60 * 1000 ms
\* What fetchAllData() may deliver: the entries of a BatchFetchResult.
Batches == { << >>, << <<0, 1>>, <<1, 1>> >>, << <<1, 1>>, <<0, 1>> >>,
             << <<1, 2>>, <<1, 1>> >> }

VARIABLES
  now,             \* Date.now()
  cache,           \* TTLCache.cache: the Map, as a sequence in insertion order
  maxSize,         \* TTLCache.maxSize
  defaultTTL,      \* TTLCache.defaultTTL
  pendingFetches,  \* TTLCacheBackedWithFetch.pendingFetches: key -> PendingFetch
  fetches,         \* the fetchData(key) promise chains not yet finished, by id,
                   \* each with the get(key) calls suspended on its promise
  currentFetch,    \* TTLCacheWithBatchFetch.currentFetch: 0 (null) or the id of
                   \* the cycle whose doFetchAll() promise it holds
  timer,           \* TTLCacheWithBatchFetch.timer: TRUE while the interval is armed
  cycles,          \* the doFetchAll() cycles not yet finished, by id, each with
                   \* the fetchAll and get calls suspended on its promise
  instance,        \* the class that was constructed
  last             \* the step just taken: operation, arguments, result

vars == <<now, cache, maxSize, defaultTTL, pendingFetches, fetches,
          currentFetch, timer, cycles, instance, last>>

\* ------------------------------------------------------------ CacheResult
NotFound == [found |-> FALSE]
Found(v) == [found |-> TRUE, value |-> v]

\* --------------------------------------------------------------- TTLCache
\* Map.has / Map.get: position of key in the insertion order, 0 when absent.
IndexOf(c, key) ==
  IF \E i \in 1 .. Len(c) : c[i].key = key
  THEN CHOOSE i \in 1 .. Len(c) : c[i].key = key
  ELSE 0

Has(c, key) == IndexOf(c, key) # 0

\* Mutant of MapDelete: the oldest entry goes in place of the entry of key.
MapDeleteOldest(c, key) == IF Has(c, key) THEN Tail(c) ELSE c

\* Map.delete(key): the remaining keys keep their order.
MapDelete(c, key) == SelectSeq(c, LAMBDA e : e.key # key)

\* Map.set(key, entry): an existing key keeps its position, a new key goes last.
MapSet(c, key, entry) ==
  IF Has(c, key) THEN [c EXCEPT ![IndexOf(c, key)] = entry] ELSE Append(c, entry)

\* JavaScript truthiness of a number (undefined is modelled as 0 for maxSize).
Truthy(x) == x # 0

\* Mutant of EffectiveTTL: options?.ttl || this.defaultTTL, a ttl of 0 is ignored.
EffectiveTTLOr(ttl, dflt) == IF ttl = NoTTL \/ ttl[1] = 0 THEN dflt ELSE ttl[1]

\* options?.ttl ?? this.defaultTTL
EffectiveTTL(ttl, dflt) == IF ttl = NoTTL THEN dflt ELSE ttl[1]

\* The eviction branch of TTLCache.set: at capacity and key new, delete
\* this.cache.keys().next().value, but only when that key is truthy.
Evict(c, key, ms) ==
  IF Truthy(ms) /\ ~Has(c, key) /\ Len(c) >= ms
  THEN IF Len(c) > 0 /\ Truthy(c[1].key) THEN MapDelete(c, c[1].key) ELSE c
  ELSE c

\* Mutant of CacheSet: the expiry is the ttl alone, Date.now() not added.
CacheSetNoClock(c, key, value, ttl, t, ms, dflt) ==
  MapSet(Evict(c, key, ms), key,
         [key |-> key, value |-> value, expireAt |-> EffectiveTTL(ttl, dflt)])

\* TTLCache.set(key, value, options)
CacheSet(c, key, value, ttl, t, ms, dflt) ==
  MapSet(Evict(c, key, ms), key,
         [key |-> key, value |-> value, expireAt |-> t + EffectiveTTL(ttl, dflt)])

\* Mutant of CacheGetResult: an entry counts as expired from now = expireAt on.
CacheGetResultEarly(c, key, t) ==
  IF ~Has(c, key) THEN NotFound
  ELSE IF t >= c[IndexOf(c, key)].expireAt THEN NotFound
  ELSE Found(c[IndexOf(c, key)].value)

\* TTLCache.get(key): the result ...
CacheGetResult(c, key, t) ==
  IF ~Has(c, key) THEN NotFound
  ELSE IF t > c[IndexOf(c, key)].expireAt THEN NotFound
  ELSE Found(c[IndexOf(c, key)].value)

\* Mutant of CacheGetStore: an expired entry is left in the Map.
CacheGetStoreKeep(c, key, t) == c

\* Mutant of CacheGetStore: reading an expired key sweeps every expired entry.
CacheGetStoreSweep(c, key, t) ==
  IF Has(c, key) /\ t > c[IndexOf(c, key)].expireAt
  THEN SelectSeq(c, LAMBDA e : ~(t > e.expireAt))
  ELSE c

\* ... and the store it leaves: an expired entry is deleted.
CacheGetStore(c, key, t) ==
  IF Has(c, key) /\ t > c[IndexOf(c, key)].expireAt THEN MapDelete(c, key) ELSE c

\* Mutant of CacheCleanup: an entry is swept from now = expireAt on.
CacheCleanupEarly(c, t) == SelectSeq(c, LAMBDA e : ~(t >= e.expireAt))

\* TTLCache.cleanup()
CacheCleanup(c, t) == SelectSeq(c, LAMBDA e : ~(t > e.expireAt))

\* ------------------------------------------------------------------ Init
EmptyMap == [x \in {} |-> 0]

NoStep == [op |-> "init"]
Quiet == [op |-> "step"]       \* a step that returns nothing to a caller

InitWith(sizes) ==
  /\ now = 0
  /\ cache = << >>
  /\ maxSize \in sizes
  /\ defaultTTL \in DefaultTTLs
  /\ pendingFetches = EmptyMap
  /\ fetches = EmptyMap
  /\ currentFetch = 0
  /\ timer = FALSE
  /\ cycles = EmptyMap
  /\ last = NoStep

Init == InitWith(MaxSizes) /\ instance = "TTLCache"

loaderVars == <<pendingFetches, fetches>>
configVars == <<maxSize, defaultTTL, instance>>
batchVars == <<currentFetch, timer, cycles>>

\* Date.now() advances between two steps.
Tick ==
  /\ now < MaxTime
  /\ now' = now + 1
  /\ last' = Quiet
  /\ UNCHANGED <<cache, configVars, batchVars, loaderVars>>

\* ------------------------------------------------------ TTLCache, alone
StoreSet(key, value, ttl) ==
  /\ cache' = CacheSet(cache, key, value, ttl, now, maxSize, defaultTTL)
  /\ last' = [op |-> "set", key |-> key, value |-> value, ttl |-> ttl]
  /\ UNCHANGED <<now, configVars, batchVars, loaderVars>>

StoreGet(key) ==
  /\ cache' = CacheGetStore(cache, key, now)
  /\ last' = [op |-> "get", key |-> key, result |-> CacheGetResult(cache, key, now)]
  /\ UNCHANGED <<now, configVars, batchVars, loaderVars>>

StoreDelete(key) ==
  /\ cache' = MapDelete(cache, key)
  /\ last' = [op |-> "delete", key |-> key]
  /\ UNCHANGED <<now, configVars, batchVars, loaderVars>>

StoreClear ==
  /\ cache' = << >>
  /\ last' = [op |-> "clear"]
  /\ UNCHANGED <<now, configVars, batchVars, loaderVars>>

StoreCleanup ==
  /\ cache' = CacheCleanup(cache, now)
  /\ last' = [op |-> "cleanup"]
  /\ UNCHANGED <<now, configVars, batchVars, loaderVars>>

StoreNext ==
  \/ Tick
  \/ \E key \in Keys, value \in Values, ttl \in TTLOptions : StoreSet(key, value, ttl)
  \/ \E key \in Keys : StoreGet(key)
  \/ \E key \in Keys : StoreDelete(key)
  \/ StoreClear
  \/ StoreCleanup

SpecStore == Init /\ [][StoreNext]_vars

\* ------------------------------------------- TTLCacheBackedWithFetch
\* FetchResult<V>, or the error the fetchData promise rejects with.
FetchSuccess(d) == [got |-> TRUE, data |-> d]
FetchNotFound == [got |-> FALSE]
FetchError == [got |-> FALSE, error |-> TRUE]
FetchResults == {FetchSuccess(d) : d \in FetchValues} \cup {FetchNotFound}
Raised(r) == "error" \in DOMAIN r

\* Map.delete / Map.set on the pendingFetches registry.
RegDelete(reg, key) == [k \in DOMAIN reg \ {key} |-> reg[k]]
RegSet(reg, key, pf) == [k \in DOMAIN reg \cup {key} |-> IF k = key THEN pf ELSE reg[k]]

\* An id not in use (an id is reused once its chain is finished).
FreeId(m) == CHOOSE i \in 1 .. MaxFetches : i \notin DOMAIN m
Put(m, id, rec) == [i \in DOMAIN m \cup {id} |-> IF i = id THEN rec ELSE m[i]]
Drop(m, id) == [i \in DOMAIN m \ {id} |-> m[i]]

\* The get calls suspended on chain f: its initiator (the call that returned
\* fetchPromise) and the calls awaiting pendingFetch.promise.
Suspended(fr) == fr.initiator + fr.attached
AllSuspended(fs) == LET S[D \in SUBSET DOMAIN fs] ==
                          IF D = {} THEN 0
                          ELSE LET i == CHOOSE j \in D : TRUE
                               IN Suspended(fs[i]) + S[D \ {i}]
                    IN S[DOMAIN fs]

\* TTLCacheBackedWithFetch.getSync(key)
LoaderGetSync(key) ==
  /\ cache' = CacheGetStore(cache, key, now)
  /\ last' = [op |-> "getSync", key |-> key, result |-> CacheGetResult(cache, key, now)]
  /\ UNCHANGED <<now, configVars, batchVars, loaderVars>>

\* TTLCacheBackedWithFetch.get(key), the cache hit: returns without suspending.
GetHit(key) ==
  /\ CacheGetResult(cache, key, now).found
  /\ cache' = CacheGetStore(cache, key, now)
  /\ last' = [op |-> "get", key |-> key, role |-> "hit",
              result |-> CacheGetResult(cache, key, now)]
  /\ UNCHANGED <<now, configVars, batchVars, loaderVars>>

\* Mutant of GetAttach: the call awaits the promise without refCount++.
GetAttachUncounted(key) ==
  /\ ~CacheGetResult(cache, key, now).found
  /\ key \in DOMAIN pendingFetches
  /\ AllSuspended(fetches) < MaxCalls
  /\ cache' = CacheGetStore(cache, key, now)
  /\ fetches' = [fetches EXCEPT ![pendingFetches[key].fetch].attached = @ + 1]
  /\ last' = Quiet
  /\ UNCHANGED <<now, configVars, batchVars, pendingFetches>>

\* get(key), miss and a PendingFetch registered: refCount++ and await its promise.
GetAttach(key) ==
  /\ ~CacheGetResult(cache, key, now).found
  /\ key \in DOMAIN pendingFetches
  /\ AllSuspended(fetches) < MaxCalls
  /\ cache' = CacheGetStore(cache, key, now)
  /\ pendingFetches' = [pendingFetches EXCEPT ![key].refCount = @ + 1]
  /\ fetches' = [fetches EXCEPT ![pendingFetches[key].fetch].attached = @ + 1]
  /\ last' = Quiet
  /\ UNCHANGED <<now, configVars, batchVars>>

\* get(key), miss and nothing registered: call fetchData(key), chain
\* .then/.catch/.finally on it, register the PendingFetch, return the promise.
GetFetch(key) ==
  /\ ~CacheGetResult(cache, key, now).found
  /\ key \notin DOMAIN pendingFetches
  /\ AllSuspended(fetches) < MaxCalls
  /\ Cardinality(DOMAIN fetches) < MaxFetches
  /\ LET f == FreeId(fetches) IN
       /\ cache' = CacheGetStore(cache, key, now)
       /\ fetches' = Put(fetches, f, [key |-> key, stage |-> "inflight",
                                      result |-> FetchNotFound, outcome |-> NotFound,
                                      handled |-> 0, initiator |-> 1, attached |-> 0])
       /\ pendingFetches' = RegSet(pendingFetches, key, [fetch |-> f, refCount |-> 1])
       /\ last' = Quiet
  /\ UNCHANGED <<now, configVars, batchVars>>

\* The outcome the .then handler returns for a fulfilled fetch.
ThenOutcome(r) == IF ~r.got THEN NotFound ELSE Found(r.data)

\* Mutant of ThenStore: the fetched data is not written.
ThenStoreSkip(c, key, r, t, ms, dflt) == c

\* Mutant of ThenStore: a not-found result deletes the key.
ThenStoreDrop(c, key, r, t, ms, dflt) ==
  IF ~r.got THEN MapDelete(c, key) ELSE CacheSet(c, key, r.data, NoTTL, t, ms, dflt)

\* Mutant of ThenStore: a key written while the fetch was in flight is kept.
ThenStoreUnlessPresent(c, key, r, t, ms, dflt) ==
  IF ~r.got \/ Has(c, key) THEN c ELSE CacheSet(c, key, r.data, NoTTL, t, ms, dflt)

\* The store after the .then handler: a success is written with the default TTL.
ThenStore(c, key, r, t, ms, dflt) ==
  IF ~r.got THEN c ELSE CacheSet(c, key, r.data, NoTTL, t, ms, dflt)

\* The promise returned by fetchData(key) is fulfilled with a FetchResult and
\* the reaction of .then(result => ...) runs its handler.  Nothing in the
\* program observes the settlement before this reaction; the reaction of
\* .catch that follows only passes the outcome on and changes no state.
ThenStep(f, r) ==
  /\ f \in DOMAIN fetches
  /\ fetches[f].stage = "inflight"
  /\ ~Raised(r)
  /\ cache' = ThenStore(cache, fetches[f].key, r, now, maxSize, defaultTTL)
  /\ fetches' = [fetches EXCEPT ![f].stage = "handled", ![f].result = r,
                                ![f].outcome = ThenOutcome(r)]
  /\ last' = Quiet
  /\ UNCHANGED <<now, configVars, batchVars, pendingFetches>>

\* The registry after the .catch handler: pendingFetches.delete(key).
CatchRegistry(reg, key) == RegDelete(reg, key)

\* Mutant of CatchHandled: onFetchError is not called.
CatchHandledNever(n) == n

\* The number of onFetchError calls after the .catch handler.
CatchHandled(n) == n + 1

\* The promise returned by fetchData(key) is rejected; the reaction of .then
\* passes the rejection on, and the reaction of .catch(error => ...) runs its
\* handler: onFetchError(error), pendingFetches.delete(key), yield NotFound.
CatchStep(f) ==
  /\ f \in DOMAIN fetches
  /\ fetches[f].stage = "inflight"
  /\ fetches' = [fetches EXCEPT ![f].stage = "handled", ![f].result = FetchError,
                                ![f].handled = CatchHandled(@),
                                ![f].outcome = NotFound]
  /\ pendingFetches' = CatchRegistry(pendingFetches, fetches[f].key)
  /\ last' = Quiet
  /\ UNCHANGED <<now, cache, configVars, batchVars>>

\* Mutant of FinallyRegistry: the .finally handler deletes nothing.
FinallyRegistryKeep(reg, key) == reg

\* The registry after the .finally handler: pendingFetches.delete(key), whatever
\* PendingFetch is registered under key.
FinallyRegistry(reg, key) == RegDelete(reg, key)

\* The reaction of .finally(() => ...).
FinallyStep(f) ==
  /\ f \in DOMAIN fetches
  /\ fetches[f].stage = "handled"
  /\ fetches' = [fetches EXCEPT ![f].stage = "finally"]
  /\ pendingFetches' = FinallyRegistry(pendingFetches, fetches[f].key)
  /\ last' = Quiet
  /\ UNCHANGED <<now, cache, configVars, batchVars>>

\* What a get call suspended on the chain's promise returns: the initiator
\* returned fetchPromise itself, an attached call returns the awaited result.
Delivered(fr, role) == fr.outcome

\* A suspended get(key) resumes once the chain's promise has settled, and
\* returns its outcome.  The chain is finished when its last caller has returned.
Return(f, role) ==
  /\ f \in DOMAIN fetches
  /\ fetches[f].stage = "finally"
  /\ fetches[f][role] > 0
  /\ fetches' = IF Suspended(fetches[f]) = 1 THEN Drop(fetches, f)
                ELSE [fetches EXCEPT ![f][role] = @ - 1]
  /\ last' = [op |-> "return", key |-> fetches[f].key, role |-> role,
              fetched |-> fetches[f].result,
              handled |-> fetches[f].handled,
              result |-> Delivered(fetches[f], role)]
  /\ UNCHANGED <<now, cache, configVars, batchVars, pendingFetches>>

\* TTLCacheBackedWithFetch.set / delete / clear / cleanup: passthroughs.
LoaderSet(key, value, ttl) ==
  /\ cache' = CacheSet(cache, key, value, ttl, now, maxSize, defaultTTL)
  /\ last' = Quiet
  /\ UNCHANGED <<now, configVars, batchVars, loaderVars>>

LoaderDelete(key) ==
  /\ cache' = MapDelete(cache, key)
  /\ last' = Quiet
  /\ UNCHANGED <<now, configVars, batchVars, loaderVars>>

LoaderClear ==
  /\ cache' = << >>
  /\ last' = Quiet
  /\ UNCHANGED <<now, configVars, batchVars, loaderVars>>

LoaderCleanup ==
  /\ cache' = CacheCleanup(cache, now)
  /\ last' = Quiet
  /\ UNCHANGED <<now, configVars, batchVars, loaderVars>>

LoaderInit == InitWith(LoaderMaxSizes) /\ instance = "TTLCacheBackedWithFetch"

LoaderNext ==
  \/ Tick
  \/ \E key \in GetKeys : LoaderGetSync(key)
  \/ \E key \in GetKeys : GetHit(key)
  \/ \E key \in GetKeys : GetAttach(key)
  \/ \E key \in GetKeys : GetFetch(key)
  \/ \E f \in 1 .. MaxFetches, r \in FetchResults : ThenStep(f, r)
  \/ \E f \in 1 .. MaxFetches : CatchStep(f)
  \/ \E f \in 1 .. MaxFetches : FinallyStep(f)
  \/ \E f \in 1 .. MaxFetches, role \in {"initiator", "attached"} : Return(f, role)
  \/ \E key \in LoaderKeys, value \in SetValues, ttl \in LoaderTTLOptions : LoaderSet(key, value, ttl)
  \/ \E key \in LoaderKeys : LoaderDelete(key)
  \/ LoaderClear
  \/ LoaderCleanup

SpecLoader == LoaderInit /\ [][LoaderNext]_vars

\* ------------------------------------------- TTLCacheWithBatchFetch
\* What the fetchAllData() promise settles with: a BatchFetchResult, or the
\* error it rejects with.
BatchSuccess(b) == [entries |-> b]
BatchError == [error |-> TRUE]
BatchResults == {BatchSuccess(b) : b \in Batches}

\* for (const [key, value] of result.entries) this.cache.set(key, value)
RECURSIVE SetAll(_, _, _, _, _)

\* Mutant of SetAll: a key the batch returns twice keeps its first value.
SetAllFirstWins(c, entries, t, ms, dflt) ==
  IF entries = << >> THEN c
  ELSE SetAll(IF Has(c, entries[1][1]) THEN c
              ELSE CacheSet(c, entries[1][1], entries[1][2], NoTTL, t, ms, dflt),
              Tail(entries), t, ms, dflt)

SetAll(c, entries, t, ms, dflt) ==
  IF entries = << >> THEN c
  ELSE SetAll(CacheSet(c, entries[1][1], entries[1][2], NoTTL, t, ms, dflt),
              Tail(entries), t, ms, dflt)

\* Mutant of DoFetchAllStore: the store is not cleared before it is repopulated.
DoFetchAllStoreNoClear(c, r, t, ms, dflt) ==
  IF Raised(r) THEN c ELSE SetAll(c, r.entries, t, ms, dflt)

\* Mutant of DoFetchAllStore: the store is cleared before the fetch is awaited.
DoFetchAllStoreClearsOnError(c, r, t, ms, dflt) ==
  IF Raised(r) THEN << >> ELSE SetAll(<< >>, r.entries, t, ms, dflt)

\* The store after doFetchAll() has resumed with a result: cleared and
\* repopulated on success, untouched when the fetch raised.
DoFetchAllStore(c, r, t, ms, dflt) ==
  IF Raised(r) THEN c ELSE SetAll(<< >>, r.entries, t, ms, dflt)

\* Mutant of DoFetchAllHandled: the error is swallowed without the handler.
DoFetchAllHandledNever(n, r) == n

\* The number of onFetchError calls after doFetchAll() has resumed.
DoFetchAllHandled(n, r) == IF Raised(r) THEN n + 1 ELSE n

NoGetters == [k \in GetKeys |-> 0]

\* The calls suspended on the promise of cycle c: the fetchAll calls that
\* returned this.currentFetch and the get calls awaiting it.
Waiting(cr) == LET S[D \in SUBSET GetKeys] ==
                     IF D = {} THEN 0
                     ELSE LET k == CHOOSE j \in D : TRUE
                          IN cr.getters[k] + S[D \ {k}]
               IN cr.attached + S[GetKeys]
AllWaiting(cs) == LET S[D \in SUBSET DOMAIN cs] ==
                        IF D = {} THEN 0
                        ELSE LET i == CHOOSE j \in D : TRUE
                             IN Waiting(cs[i]) + S[D \ {i}]
                  IN S[DOMAIN cs]

\* A cycle is finished once its initiating fetchAll has resolved and every call
\* suspended on its promise has resumed.
Retire(cs, c) ==
  IF cs[c].stage = "cleared" /\ Waiting(cs[c]) = 0 THEN Drop(cs, c) ELSE cs

\* Mutant of Registered: the handle is never seen as set.
RegisteredNever(h) == FALSE

\* if (this.currentFetch): a cycle is registered.
Registered(h) == h # 0

\* Mutant of StartHandle: the promise of doFetchAll() is not stored.
StartHandleForgotten(h, c) == h

\* this.currentFetch = this.doFetchAll()
StartHandle(h, c) == c

\* Mutant of JobsPending: the interval's callback runs between two promise jobs.
JobsPendingNever(cs) == FALSE

\* A promise reaction of some cycle is queued: doFetchAll() has settled and
\* the initiating fetchAll() or a suspended call has yet to resume.  The
\* interval's callback is a task, and no task runs before the queue of
\* promise jobs is empty.
JobsPending(cs) == \E c \in DOMAIN cs : cs[c].stage # "fetching"

\* fetchAll(), called by the caller ("manual") or by the interval ("timer"):
\* with a cycle registered it returns this.currentFetch; otherwise it calls
\* doFetchAll(), which calls fetchAllData() and suspends, stores the promise in
\* this.currentFetch and awaits it.
FetchAll(trigger) ==
  /\ trigger = "timer" => timer /\ ~JobsPending(cycles)
  /\ IF Registered(currentFetch)
     THEN /\ trigger = "manual" => AllWaiting(cycles) < MaxCalls
          /\ cycles' = IF trigger = "manual"
                       THEN [cycles EXCEPT ![currentFetch].attached = @ + 1]
                       ELSE cycles
          /\ UNCHANGED currentFetch
     ELSE /\ Cardinality(DOMAIN cycles) < MaxFetches
          /\ LET c == FreeId(cycles) IN
               /\ cycles' = Put(cycles, c, [stage |-> "fetching", result |-> "pending",
                                            handled |-> 0, attached |-> 0,
                                            getters |-> NoGetters])
               /\ currentFetch' = StartHandle(currentFetch, c)
  /\ last' = [op |-> "fetchAll", trigger |-> trigger]
  /\ UNCHANGED <<now, cache, configVars, loaderVars, timer>>

\* The fetchAllData() promise settles and doFetchAll() resumes: on an error it
\* calls onFetchError and returns; on a result it clears the store and sets
\* every entry.  Its promise is then resolved.
DoFetchAllResume(c, r) ==
  /\ c \in DOMAIN cycles
  /\ cycles[c].stage = "fetching"
  /\ cache' = DoFetchAllStore(cache, r, now, maxSize, defaultTTL)
  /\ cycles' = [cycles EXCEPT ![c].stage = "done",
                              ![c].result = IF Raised(r) THEN "error" ELSE "ok",
                              ![c].handled = DoFetchAllHandled(@, r)]
  /\ last' = Quiet
  /\ UNCHANGED <<now, configVars, loaderVars, currentFetch, timer>>

\* Mutant of FinallyHandle: the finally block leaves the handle as it is.
FinallyHandleKeep(h, c) == h

\* The handle after the finally block of fetchAll(): this.currentFetch = null.
FinallyHandle(h, c) == 0

\* The initiating fetchAll() resumes from await this.currentFetch: its finally
\* block clears the handle and its promise resolves.  It is the first reaction
\* registered on the cycle's promise, so it runs before any suspended call.
FetchAllFinally(c) ==
  /\ c \in DOMAIN cycles
  /\ cycles[c].stage = "done"
  /\ currentFetch' = FinallyHandle(currentFetch, c)
  /\ cycles' = Retire([cycles EXCEPT ![c].stage = "cleared"], c)
  /\ last' = [op |-> "resolved", role |-> "initiator", result |-> cycles[c].result]
  /\ UNCHANGED <<now, cache, configVars, loaderVars, timer>>

\* A fetchAll() that returned this.currentFetch resolves with the cycle.
FetchAllReturn(c) ==
  /\ c \in DOMAIN cycles
  /\ cycles[c].stage = "cleared"
  /\ cycles[c].attached > 0
  /\ cycles' = Retire([cycles EXCEPT ![c].attached = @ - 1], c)
  /\ last' = [op |-> "resolved", role |-> "attached", result |-> cycles[c].result]
  /\ UNCHANGED <<now, cache, configVars, loaderVars, currentFetch, timer>>

\* Mutant of BatchGetSync: getSync awaits this.currentFetch as get does.
BatchGetSyncWaits(key) ==
  IF Registered(currentFetch)
  THEN /\ AllWaiting(cycles) < MaxCalls
       /\ cycles' = [cycles EXCEPT ![currentFetch].getters[key] = @ + 1]
       /\ last' = Quiet
       /\ UNCHANGED <<now, cache, configVars, loaderVars, currentFetch, timer>>
  ELSE /\ cache' = CacheGetStore(cache, key, now)
       /\ last' = [op |-> "getSync", key |-> key, result |-> CacheGetResult(cache, key, now)]
       /\ UNCHANGED <<now, configVars, loaderVars, batchVars>>

\* TTLCacheWithBatchFetch.getSync(key)
BatchGetSync(key) ==
  /\ cache' = CacheGetStore(cache, key, now)
  /\ last' = [op |-> "getSync", key |-> key, result |-> CacheGetResult(cache, key, now)]
  /\ UNCHANGED <<now, configVars, loaderVars, batchVars>>

\* TTLCacheWithBatchFetch.get(key) with this.currentFetch null: reads the store.
BatchGetRead(key) ==
  /\ ~Registered(currentFetch)
  /\ cache' = CacheGetStore(cache, key, now)
  /\ last' = [op |-> "get", key |-> key, waited |-> FALSE,
              result |-> CacheGetResult(cache, key, now)]
  /\ UNCHANGED <<now, configVars, loaderVars, batchVars>>

\* get(key) with a cycle registered: await this.currentFetch.
BatchGetWait(key) ==
  /\ Registered(currentFetch)
  /\ AllWaiting(cycles) < MaxCalls
  /\ cycles' = [cycles EXCEPT ![currentFetch].getters[key] = @ + 1]
  /\ last' = Quiet
  /\ UNCHANGED <<now, cache, configVars, loaderVars, currentFetch, timer>>

\* Mutant of BatchGetResume: the get awaits again while a cycle is registered.
BatchGetResumeWhenIdle(c, key) ==
  /\ c \in DOMAIN cycles
  /\ cycles[c].stage = "cleared"
  /\ cycles[c].getters[key] > 0
  /\ ~Registered(currentFetch)
  /\ cache' = CacheGetStore(cache, key, now)
  /\ cycles' = Retire([cycles EXCEPT ![c].getters[key] = @ - 1], c)
  /\ last' = [op |-> "get", key |-> key, waited |-> TRUE,
              result |-> CacheGetResult(cache, key, now)]
  /\ UNCHANGED <<now, configVars, loaderVars, currentFetch, timer>>

\* A suspended get(key) resumes after the cycle's promise has resolved, and
\* reads the store.
BatchGetResume(c, key) ==
  /\ c \in DOMAIN cycles
  /\ cycles[c].stage = "cleared"
  /\ cycles[c].getters[key] > 0
  /\ cache' = CacheGetStore(cache, key, now)
  /\ cycles' = Retire([cycles EXCEPT ![c].getters[key] = @ - 1], c)
  /\ last' = [op |-> "get", key |-> key, waited |-> TRUE,
              result |-> CacheGetResult(cache, key, now)]
  /\ UNCHANGED <<now, configVars, loaderVars, currentFetch, timer>>

\* TTLCacheWithBatchFetch.setUntilNextRefresh / delete / clear / cleanup
SetUntilNextRefresh(key, value, ttl) ==
  /\ cache' = CacheSet(cache, key, value, ttl, now, maxSize, defaultTTL)
  /\ last' = Quiet
  /\ UNCHANGED <<now, configVars, loaderVars, batchVars>>

BatchDelete(key) ==
  /\ cache' = MapDelete(cache, key)
  /\ last' = Quiet
  /\ UNCHANGED <<now, configVars, loaderVars, batchVars>>

BatchClear ==
  /\ cache' = << >>
  /\ last' = Quiet
  /\ UNCHANGED <<now, configVars, loaderVars, batchVars>>

BatchCleanup ==
  /\ cache' = CacheCleanup(cache, now)
  /\ last' = Quiet
  /\ UNCHANGED <<now, configVars, loaderVars, batchVars>>

\* Mutant of ShutdownTimer: the interval is left armed.
ShutdownTimerKeep(t) == t

\* The timer after shutdown(): clearInterval(this.timer); this.timer = null.
ShutdownTimer(t) == FALSE

\* TTLCacheWithBatchFetch.shutdown()
Shutdown ==
  /\ timer' = ShutdownTimer(timer)
  /\ cache' = << >>
  /\ last' = [op |-> "shutdown"]
  /\ UNCHANGED <<now, configVars, loaderVars, currentFetch, cycles>>

\* Mutant of RefreshInterval: a missing option counts as 0.
RefreshIntervalOff(opt) == IF opt = NoOption THEN 0 ELSE opt[1]

\* this.refreshInterval = options.refreshInterval ?? 5 * 60 * 1000
RefreshInterval(opt) == IF opt = NoOption THEN DefaultRefreshInterval ELSE opt[1]

\* Mutant of FetchOnStart: a missing option counts as false.
FetchOnStartOff(opt) == IF opt = NoOption THEN FALSE ELSE opt[1]

\* options.fetchOnStart ?? true
FetchOnStart(opt) == IF opt = NoOption THEN TRUE ELSE opt[1]

\* The state after new TTLCacheWithBatchFetch(fetchAllData, options): with
\* fetchOnStart the constructor has called fetchAll(), which has called
\* fetchAllData() and is suspended; with this.refreshInterval > 0 the
\* interval is armed.
BatchInitWith(cls) ==
  /\ now = 0
  /\ cache = << >>
  /\ maxSize \in BatchMaxSizes
  /\ defaultTTL \in DefaultTTLs
  /\ pendingFetches = EmptyMap
  /\ fetches = EmptyMap
  /\ instance = cls
  /\ \E fetchOnStart \in FetchOnStartOptions, refreshInterval \in RefreshIntervalOptions :
       /\ currentFetch = IF FetchOnStart(fetchOnStart) THEN 1 ELSE 0
       /\ cycles = IF FetchOnStart(fetchOnStart)
                   THEN Put(EmptyMap, 1, [stage |-> "fetching", result |-> "pending",
                                          handled |-> 0, attached |-> 0,
                                          getters |-> NoGetters])
                   ELSE EmptyMap
       /\ timer = (RefreshInterval(refreshInterval) > 0)
       /\ last = [op |-> "new", fetchOnStart |-> fetchOnStart,
                  refreshInterval |-> refreshInterval]

BatchInit == BatchInitWith("TTLCacheWithBatchFetch")

BatchNext ==
  \/ Tick
  \/ FetchAll("manual")
  \/ FetchAll("timer")
  \/ \E c \in 1 .. MaxFetches, r \in BatchResults \cup {BatchError} : DoFetchAllResume(c, r)
  \/ \E c \in 1 .. MaxFetches : FetchAllFinally(c)
  \/ \E c \in 1 .. MaxFetches : FetchAllReturn(c)
  \/ \E key \in GetKeys : BatchGetSync(key)
  \/ \E key \in GetKeys : BatchGetRead(key)
  \/ \E key \in GetKeys : BatchGetWait(key)
  \/ \E c \in 1 .. MaxFetches, key \in GetKeys : BatchGetResume(c, key)
  \/ \E key \in BatchKeys, value \in SetValues, ttl \in LoaderTTLOptions :
       SetUntilNextRefresh(key, value, ttl)
  \/ \E key \in GetKeys : BatchDelete(key)
  \/ BatchClear
  \/ BatchCleanup
  \/ Shutdown

SpecBatch == BatchInit /\ [][BatchNext]_vars

\* -------------------------------------------------- TTLCacheWithSingleFetch
\* TTLCacheWithSingleFetch.SINGLE_KEY = Symbol('SINGLE_CACHE_KEY'): a key of
\* its own, truthy as every symbol is.
SINGLE_KEY == 1

\* What the fetchData() promise settles with: the value, or the error it
\* rejects with.
SingleSuccess(v) == [value |-> v]
SingleFetchResults == {SingleSuccess(v) : v \in Values} \cup {BatchError}

\* Mutant of SingleBatch: the fetched value is stored under another key.
SingleBatchOtherKey(r) ==
  IF Raised(r) THEN BatchError ELSE BatchSuccess(<< <<0, r.value>> >>)

\* async () => ({ entries: [[SINGLE_KEY, await fetchData()]] }): what the
\* wrapped fetch function settles with when fetchData() settles with r.
SingleBatch(r) ==
  IF Raised(r) THEN BatchError ELSE BatchSuccess(<< <<SINGLE_KEY, r.value>> >>)

\* The methods of TTLCacheWithSingleFetch, each a call of the same method of
\* the TTLCacheWithBatchFetch it holds, with SINGLE_KEY for the key.
SingleGetSync == BatchGetSync(SINGLE_KEY)
SingleGetRead == BatchGetRead(SINGLE_KEY)
SingleGetWait == BatchGetWait(SINGLE_KEY)
SingleGetResume(c) == BatchGetResume(c, SINGLE_KEY)
SingleSetUntilNextRefresh(value, ttl) == SetUntilNextRefresh(SINGLE_KEY, value, ttl)
SingleFetchAll(trigger) == FetchAll(trigger)
SingleFetchResume(c, r) == DoFetchAllResume(c, SingleBatch(r))
SingleFetchAllFinally(c) == FetchAllFinally(c)
SingleFetchAllReturn(c) == FetchAllReturn(c)
SingleClear == BatchClear
SingleCleanup == BatchCleanup
SingleShutdown == Shutdown

SingleInit == BatchInitWith("TTLCacheWithSingleFetch")

SingleNext ==
  \/ Tick
  \/ SingleFetchAll("manual")
  \/ SingleFetchAll("timer")
  \/ \E c \in 1 .. MaxFetches, r \in SingleFetchResults : SingleFetchResume(c, r)
  \/ \E c \in 1 .. MaxFetches : SingleFetchAllFinally(c)
  \/ \E c \in 1 .. MaxFetches : SingleFetchAllReturn(c)
  \/ SingleGetSync
  \/ SingleGetRead
  \/ SingleGetWait
  \/ \E c \in 1 .. MaxFetches : SingleGetResume(c)
  \/ \E value \in SetValues, ttl \in TTLOptions : SingleSetUntilNextRefresh(value, ttl)
  \/ SingleClear
  \/ SingleCleanup
  \/ SingleShutdown

SpecSingle == SingleInit /\ [][SingleNext]_vars

\* ------------------------------------------------------------ every class
\* An instance of any of the four classes, taking the steps of its class.
ClassesInit == Init \/ LoaderInit \/ BatchInit \/ SingleInit

ClassesNext ==
  \/ instance = "TTLCache" /\ StoreNext
  \/ instance = "TTLCacheBackedWithFetch" /\ LoaderNext
  \/ instance = "TTLCacheWithBatchFetch" /\ BatchNext
  \/ instance = "TTLCacheWithSingleFetch" /\ SingleNext

SpecClasses == ClassesInit /\ [][ClassesNext]_vars

\* ------------------------------------------------------------ both loaders
\* An instance of either loader class, taking the steps of its class.
LoadersInit == LoaderInit \/ BatchInit

LoadersNext ==
  \/ instance = "TTLCacheBackedWithFetch" /\ LoaderNext
  \/ instance = "TTLCacheWithBatchFetch" /\ BatchNext

SpecLoaders == LoadersInit /\ [][LoadersNext]_vars

\* The steps that finish fetch chain f: the settlement of the fetchData
\* promise, then the promise jobs it queues.
ChainStep(f) ==
  \/ \E r \in FetchResults : ThenStep(f, r)
  \/ CatchStep(f)
  \/ FinallyStep(f)
  \/ \E role \in {"initiator", "attached"} : Return(f, role)

\* The batches delivered and the keys written, where the question is whether
\* calls resolve: the keys the store holds decide no step of a call.
LiveBatches == { << >>, << <<1, 2>>, <<1, 1>> >> }
LiveBatchResults == {BatchSuccess(b) : b \in LiveBatches} \cup {BatchError}

\* The steps that finish refresh cycle c: the settlement of the fetchAllData
\* promise, then the promise jobs it queues.
CycleStep(c) ==
  \/ \E r \in LiveBatchResults : DoFetchAllResume(c, r)
  \/ FetchAllFinally(c)
  \/ FetchAllReturn(c)
  \/ \E key \in GetKeys : BatchGetResume(c, key)

BatchLiveNext ==
  \/ Tick
  \/ FetchAll("manual")
  \/ FetchAll("timer")
  \/ \E c \in 1 .. MaxFetches, r \in LiveBatchResults : DoFetchAllResume(c, r)
  \/ \E c \in 1 .. MaxFetches : FetchAllFinally(c)
  \/ \E c \in 1 .. MaxFetches : FetchAllReturn(c)
  \/ \E key \in GetKeys : BatchGetSync(key)
  \/ \E key \in GetKeys : BatchGetRead(key)
  \/ \E key \in GetKeys : BatchGetWait(key)
  \/ \E c \in 1 .. MaxFetches, key \in GetKeys : BatchGetResume(c, key)
  \/ \E key \in GetKeys, value \in SetValues, ttl \in LoaderTTLOptions :
       SetUntilNextRefresh(key, value, ttl)
  \/ \E key \in GetKeys : BatchDelete(key)
  \/ BatchClear
  \/ BatchCleanup
  \/ Shutdown

LoadersLiveNext ==
  \/ instance = "TTLCacheBackedWithFetch" /\ LoaderNext
  \/ instance = "TTLCacheWithBatchFetch" /\ BatchLiveNext

\* Either loader constructed without a size limit: evictions decide no step
\* of a call.
LoadersLiveInit == LoadersInit /\ maxSize = 0

\* Either loader, when every fetch function's promise settles: a promise that
\* settles queues its reactions, and every queued promise job is run.
SpecLoadersLive ==
  /\ LoadersLiveInit
  /\ [][LoadersLiveNext]_vars
  /\ \A f \in 1 .. MaxFetches : WF_vars(ChainStep(f))
  /\ \A c \in 1 .. MaxFetches : WF_vars(CycleStep(c))

\* ============================================================== claims
\* The fetchData promise of chain f has not settled yet.
InFlight(f) == f \in DOMAIN fetches /\ fetches[f].stage = "inflight"
InFlightFor(key) == {f \in DOMAIN fetches : fetches[f].key = key /\ InFlight(f)}

\* The store holds an unexpired entry for key.
Live(c, key, t) == \E i \in 1 .. Len(c) : c[i].key = key /\ t <= c[i].expireAt

\* Some step of TTLCacheBackedWithFetch.get(key).
GetStep(key) == GetHit(key) \/ GetAttach(key) \/ GetFetch(key)

\* C1: every get(k) issued for a missing key k while a fetch for k is in
\* flight joins that fetch: the fetch function is not invoked again, and the
\* caller is suspended on the chain of the fetch in flight, whose outcome it
\* will receive.
C1_Coalescing ==
  [][\A k \in GetKeys :
       (InFlightFor(k) # {} /\ ~Live(cache, k, now) /\ GetStep(k))
         => /\ DOMAIN fetches' = DOMAIN fetches
            /\ \E f \in InFlightFor(k) : fetches'[f].attached = fetches[f].attached + 1]_vars

\* C2: at most one fetch per key is in flight at any time.
C2_OneFetchInFlightPerKey ==
  \A f, g \in DOMAIN fetches :
    (InFlight(f) /\ InFlight(g) /\ fetches[f].key = fetches[g].key) => f = g

\* C3: the registry entry of a fetch is registered for as long as the fetch is
\* in flight, and every registered entry belongs to an unfinished chain of its
\* key whose callers have not all been answered.
C3_RegistryConsistent ==
  /\ \A f \in DOMAIN fetches :
       InFlight(f) => /\ fetches[f].key \in DOMAIN pendingFetches
                      /\ pendingFetches[fetches[f].key].fetch = f
  /\ \A k \in DOMAIN pendingFetches :
       /\ pendingFetches[k].fetch \in DOMAIN fetches
       /\ fetches[pendingFetches[k].fetch].key = k
       /\ fetches[pendingFetches[k].fetch].stage # "finally"

\* C4: a fetch that raises an error leaves the store unchanged, has the error
\* handler invoked exactly once in its .catch reaction, before any caller is
\* answered, and every caller of it, initiator or attached, returns NotFound.
C4_FetchErrorIsNotFound ==
  [][/\ \A f \in 1 .. MaxFetches :
          CatchStep(f) => /\ cache' = cache
                          /\ fetches'[f].handled = 1
                          /\ fetches'[f].outcome = NotFound
     /\ \A f \in 1 .. MaxFetches :
          (FinallyStep(f) /\ Raised(fetches[f].result)) => cache' = cache
     /\ \A f \in 1 .. MaxFetches, role \in {"initiator", "attached"} :
          (Return(f, role) /\ Raised(fetches[f].result))
            => /\ last'.result = NotFound
               /\ last'.handled = 1
               /\ cache' = cache]_vars

\* C4 witness: an attached caller has been answered by a fetch that raised.
C4_Witness ==
  /\ last.op = "return"
  /\ last.role = "attached"
  /\ Raised(last.fetched)
  /\ cache # << >>

\* C5: a fetch that succeeds with data d writes d under its key with the
\* default TTL, so that a read of the store at that instant returns Found(d);
\* every caller of it returns Found(d); and no fetch is launched for a key
\* whose entry is live.
C5_FetchSuccessIsStored ==
  [][/\ \A f \in 1 .. MaxFetches, d \in FetchValues :
          ThenStep(f, FetchSuccess(d))
            => LET k == fetches[f].key IN
                 /\ Has(cache', k)
                 /\ cache'[IndexOf(cache', k)].value = d
                 /\ cache'[IndexOf(cache', k)].expireAt = now + defaultTTL
                 /\ CacheGetResult(cache', k, now') = Found(d)
     /\ \A f \in 1 .. MaxFetches, role \in {"initiator", "attached"} :
          (Return(f, role) /\ fetches[f].result.got)
            => last'.result = Found(fetches[f].result.data)
     /\ \A k \in GetKeys : (Live(cache, k, now) /\ GetStep(k)) => fetches' = fetches]_vars

\* C5 witness: a caller has been answered Found(d) by a successful fetch and
\* the store holds d, live, under the key.
C5_Witness ==
  /\ last.op = "return"
  /\ last.fetched.got
  /\ last.result = Found(last.fetched.data)
  /\ CacheGetResult(cache, last.key, now) = Found(last.fetched.data)

\* C6: a fetch that reports not-found leaves the store exactly as it was, in
\* its .then reaction and in its .finally reaction, never has the error
\* handler invoked, and every caller of it returns NotFound.
C6_FetchNotFoundLeavesStore ==
  [][/\ \A f \in 1 .. MaxFetches :
          ThenStep(f, FetchNotFound) => /\ cache' = cache
                                        /\ fetches'[f].handled = 0
                                        /\ fetches'[f].outcome = NotFound
     /\ \A f \in 1 .. MaxFetches :
          (FinallyStep(f) /\ fetches[f].result = FetchNotFound)
            => cache' = cache /\ fetches'[f].handled = 0
     /\ \A f \in 1 .. MaxFetches, role \in {"initiator", "attached"} :
          (Return(f, role) /\ fetches[f].result = FetchNotFound)
            => /\ last'.result = NotFound
               /\ last'.handled = 0
               /\ cache' = cache]_vars

\* C6 witness: a caller has been answered by a fetch that reported not-found
\* while the store held entries.
C6_Witness ==
  /\ last.op = "return"
  /\ last.fetched = FetchNotFound
  /\ last.result = NotFound
  /\ Len(cache) = 2

\* No get call for key is suspended: every chain of key is finished.
NoneSuspended(key) == \A f \in DOMAIN fetches : fetches[f].key # key

\* C7 as stated: the PendingFetch of a chain is gone when the chain answers a
\* caller, and whenever a get(k) has just returned and the store holds no live
\* entry for k, the next get(k) is not served a result that has already
\* settled: nothing is registered for k (it invokes the fetch function), or at
\* the least what is registered is a fetch still in flight.
C7_RefetchAfterAReturn ==
  /\ \A f \in DOMAIN fetches :
       fetches[f].stage = "finally"
         => ~(fetches[f].key \in DOMAIN pendingFetches
              /\ pendingFetches[fetches[f].key].fetch = f)
  /\ \A k \in GetKeys :
       (last.op = "return" /\ last.key = k /\ ~Live(cache, k, now))
         => \/ k \notin DOMAIN pendingFetches
            \/ InFlight(pendingFetches[k].fetch)

\* C7 as amended: the PendingFetch of a chain is gone when the chain answers a
\* caller, and a get(k) issued when no get(k) call is suspended and the store
\* holds no live entry for k launches a new fetch for k, registers it and is
\* suspended on it as its initiator.
C7_RefetchAfterAllReturned ==
  [][/\ \A f \in 1 .. MaxFetches, role \in {"initiator", "attached"} :
          Return(f, role)
            => ~(fetches[f].key \in DOMAIN pendingFetches
                 /\ pendingFetches[fetches[f].key].fetch = f)
     /\ \A k \in GetKeys :
          (NoneSuspended(k) /\ ~Live(cache, k, now) /\ GetStep(k))
            => \E f \in DOMAIN fetches' \ DOMAIN fetches :
                 /\ fetches'[f].key = k
                 /\ fetches'[f].stage = "inflight"
                 /\ fetches'[f].initiator = 1
                 /\ pendingFetches'[k].fetch = f]_vars

\* C7 witness: a get has returned, no call is suspended, the key has been
\* stored and has expired: the next get finds nothing registered.
C7_Witness ==
  /\ last.op = "return"
  /\ fetches = EmptyMap
  /\ Has(cache, last.key)
  /\ ~Live(cache, last.key, now)

\* C8: a get(k) on a live entry of k returns that entry's value and changes
\* neither the store, the registry nor any chain: it launches no fetch.
C8_LiveEntryIsReturned ==
  [][\A k \in GetKeys :
       (Live(cache, k, now) /\ GetStep(k))
         => /\ last'.op = "get"
            /\ last'.result = Found(cache[IndexOf(cache, k)].value)
            /\ pendingFetches' = pendingFetches
            /\ fetches' = fetches
            /\ cache' = cache]_vars

\* C8 witness: a get has returned a manually set value at the instant of its
\* expiry while a fetch for the key was registered and in flight.
C8_Witness ==
  /\ last.op = "get"
  /\ last.result = Found(2)
  /\ Has(cache, last.key)
  /\ cache[IndexOf(cache, last.key)].expireAt = now
  /\ InFlightFor(last.key) # {}
  /\ last.key \in DOMAIN pendingFetches

\* The store holds an entry for key whose expiry has passed.
Expired(c, key, t) == \E i \in 1 .. Len(c) : c[i].key = key /\ t > c[i].expireAt

\* C9: a TTLCache.get(key) that directly follows set(key, value, ttl) with an
\* effective ttl > 0 returns Found(value); a key is in the store only once it
\* has been set, and a get of a key that is not in the store returns NotFound.
C9_GetAfterSet ==
  [][/\ \A k \in Keys :
          (last.op = "set" /\ last.key = k /\ EffectiveTTL(last.ttl, defaultTTL) > 0
             /\ StoreGet(k))
            => last'.result = Found(last.value)
     /\ \A k \in Keys :
          (~Has(cache, k) /\ Has(cache', k)) => (last'.op = "set" /\ last'.key = k)
     /\ \A k \in Keys :
          (~Has(cache, k) /\ StoreGet(k)) => last'.result = NotFound]_vars

\* C9 witness: a get has returned the value just set over another value, in a
\* store at capacity.
C9_Witness ==
  /\ last.op = "get"
  /\ last.result = Found(2)
  /\ maxSize = 1
  /\ Len(cache) = 1
  /\ cache[1].value = 2
  /\ cache[1].expireAt = now + 1

\* C10: TTLCache.get(key) returns NotFound exactly when the key is absent or
\* now > expireAt; an expired entry found by get is removed; an expired entry
\* stays expired or absent until the key is set again.
C10_Expiry ==
  [][/\ \A k \in Keys :
          StoreGet(k)
            => /\ (last'.result = NotFound)
                    <=> (~Has(cache, k) \/ now > cache[IndexOf(cache, k)].expireAt)
               /\ (Has(cache, k) /\ now = cache[IndexOf(cache, k)].expireAt)
                    => last'.result = Found(cache[IndexOf(cache, k)].value)
               /\ Expired(cache, k, now) => ~Has(cache', k)
     /\ \A k \in Keys :
          (Expired(cache, k, now) \/ ~Has(cache, k))
            => \/ Expired(cache', k, now')
               \/ ~Has(cache', k)
               \/ (last'.op = "set" /\ last'.key = k)]_vars

\* C10 witness: a get has found an expired entry, returned NotFound and
\* removed it, leaving the other entry.
C10_Witness ==
  /\ last.op = "get"
  /\ last.result = NotFound
  /\ now = 2
  /\ ~Has(cache, last.key)
  /\ Len(cache) = 1

\* C11: with a positive maxSize configured the Map never holds more than
\* maxSize entries.
C11_Capacity == Truthy(maxSize) => Len(cache) <= maxSize

\* C12: a set of a brand-new key in a store at capacity removes exactly the
\* oldest-inserted entry, whatever the expiry of the entries: the other entries
\* keep their order and the new key goes last.
C12_FifoEviction ==
  [][\A k \in Keys, v \in Values, ttl \in TTLOptions :
       (Truthy(maxSize) /\ ~Has(cache, k) /\ Len(cache) >= maxSize /\ StoreSet(k, v, ttl))
         => /\ ~Has(cache', cache[1].key)
            /\ Len(cache') = Len(cache)
            /\ \A i \in 2 .. Len(cache) : cache'[i - 1] = cache[i]
            /\ cache'[Len(cache')].key = k
            /\ cache'[Len(cache')].value = v]_vars

\* C13 as stated: a get(key) that directly follows a set(key, value, ttl) with
\* ttl zero or negative, the same clock instant included, returns NotFound.
C13_NonPositiveTTLIsExpired ==
  [][\A k \in Keys :
       (last.op = "set" /\ last.key = k /\ last.ttl # NoTTL /\ last.ttl[1] <= 0
          /\ StoreGet(k))
         => last'.result = NotFound]_vars

\* C13 as amended: set(key, value, ttl) with ttl <= 0 stores expireAt = now + ttl;
\* a get(key) that directly follows it, at the same instant, returns NotFound
\* when ttl < 0 and Found(value) when ttl = 0; and any get(key) of an entry
\* whose expireAt lies before now returns NotFound and removes the entry, so
\* that the entry of a ttl = 0 set is expired from the next clock instant on.
C13_ExpiredOnceClockPassesExpiry ==
  [][/\ \A k \in Keys, v \in Values, t \in TTLs :
          (t <= 0 /\ StoreSet(k, v, <<t>>))
            => /\ Has(cache', k)
               /\ cache'[IndexOf(cache', k)].expireAt = now + t
     /\ \A k \in Keys :
          (last.op = "set" /\ last.key = k /\ last.ttl # NoTTL /\ StoreGet(k))
            => /\ last.ttl[1] < 0 => last'.result = NotFound
               /\ last.ttl[1] = 0 => last'.result = Found(last.value)
     /\ \A k \in Keys :
          (Has(cache, k) /\ cache[IndexOf(cache, k)].expireAt < now /\ StoreGet(k))
            => last'.result = NotFound /\ ~Has(cache', k)]_vars

\* C13 witness: a get at clock instant 0 has returned the value of an entry
\* whose expireAt is 0, the entry of a set with ttl = 0 at that same instant.
C13_Witness ==
  /\ last.op = "get"
  /\ now = 0
  /\ last.result = Found(2)
  /\ Has(cache, last.key)
  /\ cache[IndexOf(cache, last.key)].expireAt = 0

\* The fetchAllData() promise of cycle c has not settled yet.
Fetching(c) == c \in DOMAIN cycles /\ cycles[c].stage = "fetching"
FetchingCycles == {c \in DOMAIN cycles : cycles[c].stage = "fetching"}

\* Some step of TTLCacheWithBatchFetch.get(key).
BatchGetStep(key) == BatchGetRead(key) \/ BatchGetWait(key)

\* C14: at most one bulk fetch is in flight at any time; a fetchAll trigger,
\* manual or timer, that arrives while a cycle is in flight starts no cycle and
\* leaves the store alone, a manual one is suspended on that cycle; and a
\* suspended fetchAll resolves only once its cycle has settled.
C14_RefreshCoalescing ==
  [][/\ \A c, d \in DOMAIN cycles' :
          (cycles'[c].stage = "fetching" /\ cycles'[d].stage = "fetching") => c = d
     /\ \A trigger \in {"manual", "timer"} :
          (FetchingCycles # {} /\ FetchAll(trigger))
            => /\ DOMAIN cycles' = DOMAIN cycles
               /\ cache' = cache
               /\ currentFetch' = currentFetch
               /\ trigger = "manual"
                    => \E c \in FetchingCycles : cycles'[c].attached = cycles[c].attached + 1
     /\ \A c \in 1 .. MaxFetches :
          FetchAllReturn(c) => cycles[c].result # "pending" /\ cache' = cache]_vars

\* C14 witness: a fetchAll that attached to a cycle has resolved after the
\* cycle replaced the store, while the next cycle is already in flight.
C14_Witness ==
  /\ last.op = "resolved"
  /\ last.role = "attached"
  /\ last.result = "ok"
  /\ FetchingCycles # {}
  /\ cache # << >>

\* The pairs of a batch.
Pairs(b) == {b[i] : i \in 1 .. Len(b)}

\* C15: the replacement is one step: the store a reader finds after it holds
\* only pairs of the batch, each expiring at now + defaultTTL, the last pair of
\* the batch among them (an empty batch leaves the store empty); and no other
\* step of a cycle (its start, the clearing of the handle, the resumption of a
\* fetchAll, the suspension of a get) changes the store.
C15_ReplacementIsAtomic ==
  [][/\ \A c \in 1 .. MaxFetches, b \in Batches :
          DoFetchAllResume(c, BatchSuccess(b))
            => /\ \A i \in 1 .. Len(cache') :
                    /\ <<cache'[i].key, cache'[i].value>> \in Pairs(b)
                    /\ cache'[i].expireAt = now + defaultTTL
               /\ b = << >> => cache' = << >>
               /\ b # << >> => CacheGetResult(cache', b[Len(b)][1], now) = Found(b[Len(b)][2])
     /\ \A c \in 1 .. MaxFetches, trigger \in {"manual", "timer"}, k \in GetKeys :
          (FetchAll(trigger) \/ FetchAllFinally(c) \/ FetchAllReturn(c) \/ BatchGetWait(k))
            => cache' = cache]_vars

\* C15 witness: a get that waited for a cycle has read the fetched value and
\* the store holds both pairs of the batch.
C15_Witness ==
  /\ last.op = "get"
  /\ last.waited
  /\ last.result = Found(1)
  /\ Len(cache) = 2
  /\ \A i \in 1 .. 2 : cache[i].value = 1 /\ cache[i].expireAt = now + defaultTTL

\* C16 as stated: a get(k) called while a bulk fetch is in flight is suspended
\* on that cycle and reads only after the cycle has settled; a get(k) called
\* when no bulk fetch is in flight reads the store without waiting.
C16_ReadAfterRefresh ==
  [][/\ \A k \in GetKeys :
          (FetchingCycles # {} /\ BatchGetStep(k))
            => \E c \in FetchingCycles : cycles'[c].getters[k] = cycles[c].getters[k] + 1
     /\ \A k \in GetKeys :
          (FetchingCycles = {} /\ BatchGetStep(k))
            => /\ last'.op = "get"
               /\ ~last'.waited
               /\ last'.result = CacheGetResult(cache, k, now)
     /\ \A c \in 1 .. MaxFetches, k \in GetKeys :
          BatchGetResume(c, k) => cycles[c].result # "pending"]_vars

\* C16 as amended: a get(k) called while the handle currentFetch is set, by a
\* cycle in flight or by one that has settled and whose fetchAll has not yet
\* cleared the handle, is suspended on that cycle and reads the store only
\* after the cycle has settled and its handle has been cleared; a get(k)
\* called while the handle is null reads the store without waiting.
C16_ReadAfterHandleCleared ==
  [][/\ \A k \in GetKeys :
          (currentFetch # 0 /\ BatchGetStep(k))
            => /\ cycles'[currentFetch].getters[k] = cycles[currentFetch].getters[k] + 1
               /\ cache' = cache
               /\ last' = Quiet
     /\ \A k \in GetKeys :
          (currentFetch = 0 /\ BatchGetStep(k))
            => /\ last'.op = "get"
               /\ ~last'.waited
               /\ last'.result = CacheGetResult(cache, k, now)
               /\ cycles' = cycles
     /\ \A c \in 1 .. MaxFetches, k \in GetKeys :
          BatchGetResume(c, k)
            => /\ cycles[c].result # "pending"
               /\ currentFetch # c
               /\ last'.waited
               /\ last'.result = CacheGetResult(cache, k, now)]_vars

\* C16 witness: a get that was suspended on a cycle has read the store, the
\* value of an override, after the handle was cleared and every call resumed.
C16_Witness ==
  /\ last.op = "get"
  /\ last.waited
  /\ last.result = Found(2)
  /\ currentFetch = 0
  /\ cycles = EmptyMap

\* C17: when the bulk fetch raises, doFetchAll calls the error handler once
\* and leaves the store exactly as it was; the fetchAll calls of the cycle
\* resolve, and resolving them changes nothing in the store either.
C17_FailedRefreshKeepsStore ==
  [][/\ \A c \in 1 .. MaxFetches :
          DoFetchAllResume(c, BatchError)
            => /\ cache' = cache
               /\ cycles'[c].handled = 1
               /\ cycles'[c].result = "error"
     /\ \A c \in 1 .. MaxFetches :
          ((FetchAllFinally(c) \/ FetchAllReturn(c)) /\ cycles[c].result = "error")
            => /\ cache' = cache
               /\ cycles[c].handled = 1
               /\ last'.op = "resolved"
               /\ last'.result = "error"]_vars

\* C17 witness: the fetchAll that started a cycle has resolved after its bulk
\* fetch raised, and the store still holds the two pairs of an earlier refresh.
C17_Witness ==
  /\ last.op = "resolved"
  /\ last.role = "initiator"
  /\ last.result = "error"
  /\ Len(cache) = 2
  /\ \A i \in 1 .. 2 : cache[i].value = 1

\* The keys of a batch, and the value of the last pair of key k in it.
BatchKeysOf(b) == {b[i][1] : i \in 1 .. Len(b)}
LastValue(b, k) == b[CHOOSE i \in 1 .. Len(b) :
                       b[i][1] = k /\ \A j \in (i + 1) .. Len(b) : b[j][1] # k][2]

\* What a read of key k must return right after the replacement by batch b.
Replaced(b, k) == IF k \in BatchKeysOf(b) THEN Found(LastValue(b, k)) ELSE NotFound

C19_OverrideUntilNextRefresh ==
  [][/\ \A k \in BatchKeys, v \in SetValues, ttl \in LoaderTTLOptions :
          SetUntilNextRefresh(k, v, ttl) => CacheGetResult(cache', k, now) = Found(v)
     /\ \A c \in 1 .. MaxFetches :
          DoFetchAllResume(c, BatchError) => cache' = cache
     /\ \A c \in 1 .. MaxFetches, b \in Batches :
          DoFetchAllResume(c, BatchSuccess(b))
            => \A k \in BatchKeys : CacheGetResult(cache', k, now) = Replaced(b, k)
     /\ \A c \in 1 .. MaxFetches, trigger \in {"manual", "timer"}, k \in GetKeys :
          (\/ FetchAll(trigger) \/ FetchAllFinally(c) \/ FetchAllReturn(c)
           \/ BatchGetSync(k) \/ BatchGetRead(k) \/ BatchGetWait(k)
           \/ BatchGetResume(c, k) \/ BatchCleanup)
            => \A j \in BatchKeys :
                 Live(cache, j, now)
                   => CacheGetResult(cache', j, now') = CacheGetResult(cache, j, now)]_vars

\* C19 as amended: as stated, except that after a successful replacement a
\* read of k returns the value the batch has for k, or NotFound: when the
\* batch has no k, or when the pair of k was evicted while the batch was
\* inserted; it never returns a value the store held before the replacement.
C19_OverrideUntilNextReplacement ==
  [][/\ \A k \in BatchKeys, v \in SetValues, ttl \in LoaderTTLOptions :
          SetUntilNextRefresh(k, v, ttl) => CacheGetResult(cache', k, now) = Found(v)
     /\ \A c \in 1 .. MaxFetches :
          DoFetchAllResume(c, BatchError) => cache' = cache
     /\ \A c \in 1 .. MaxFetches, b \in Batches :
          DoFetchAllResume(c, BatchSuccess(b))
            => /\ \A k \in BatchKeys :
                    CacheGetResult(cache', k, now) \in {Replaced(b, k), NotFound}
               /\ \A i \in 1 .. Len(cache') : cache'[i].expireAt = now + defaultTTL
               /\ (~Truthy(maxSize) \/ Cardinality(BatchKeysOf(b)) <= maxSize)
                    => \A k \in BatchKeys : CacheGetResult(cache', k, now) = Replaced(b, k)
     /\ \A c \in 1 .. MaxFetches, trigger \in {"manual", "timer"}, k \in GetKeys :
          (\/ FetchAll(trigger) \/ FetchAllFinally(c) \/ FetchAllReturn(c)
           \/ BatchGetSync(k) \/ BatchGetRead(k) \/ BatchGetWait(k)
           \/ BatchGetResume(c, k) \/ BatchCleanup)
            => \A j \in BatchKeys :
                 Live(cache, j, now)
                   => CacheGetResult(cache', j, now') = CacheGetResult(cache, j, now)]_vars

\* C19 witness: a get that waited for a cycle has read an override in a store
\* of capacity 1: the cycle failed, or the override was written after it.
C19_Witness ==
  /\ last.op = "get"
  /\ last.waited
  /\ last.result = Found(2)
  /\ now = 0
  /\ Len(cache) = 1
  /\ maxSize = 1

\* C20: shutdown disarms the timer and clears the store, whatever the state it
\* is called in, and leaves the cycles alone; a disarmed timer is never armed
\* again and never fires; with the timer disarmed a cycle is started only by
\* a manual fetchAll.
C20_ShutdownStopsTimer ==
  [][/\ Shutdown => /\ ~timer'
                    /\ cache' = << >>
                    /\ cycles' = cycles
                    /\ currentFetch' = currentFetch
     /\ ~timer => ~timer'
     /\ (~timer /\ DOMAIN cycles' \ DOMAIN cycles # {})
          => FetchAll("manual") /\ currentFetch = 0]_vars

\* C20 witness: shutdown has returned, the timer disarmed, while a cycle with
\* an attached fetchAll is in flight.
C20_Witness ==
  /\ last.op = "shutdown"
  /\ ~timer
  /\ FetchingCycles # {}
  /\ cycles[currentFetch].attached = 1
  /\ now = 2

\* C28: TTLCache.cleanup() leaves no entry whose expiry has passed, keeps
\* every entry whose expiry has not passed, read or not, with its value and
\* expiry, and keeps the kept entries in their order of insertion.
C28_CleanupSweepsExpired ==
  [][StoreCleanup
       => /\ \A i \in 1 .. Len(cache') : ~(now > cache'[i].expireAt)
          /\ \A i \in 1 .. Len(cache) :
               IF now > cache[i].expireAt
               THEN ~Has(cache', cache[i].key)
               ELSE /\ Has(cache', cache[i].key)
                    /\ cache'[IndexOf(cache', cache[i].key)] = cache[i]
          /\ Len(cache') = Cardinality({i \in 1 .. Len(cache) : ~(now > cache[i].expireAt)})
          /\ \A i, j \in 1 .. Len(cache) :
               (i < j /\ Has(cache', cache[i].key) /\ Has(cache', cache[j].key))
                 => IndexOf(cache', cache[i].key) < IndexOf(cache', cache[j].key)]_vars

\* C28 witness: cleanup has swept an expired entry and kept, at the instant
\* of its expiry, the entry inserted after it.
C28_Witness ==
  /\ last.op = "cleanup"
  /\ now = 1
  /\ Len(cache) = 2
  /\ cache[1].expireAt = 1
  /\ cache[2].expireAt = 2
  /\ maxSize = 0

\* C29: TTLCache.set on a key the Map holds evicts nothing and moves nothing:
\* every other entry stays where it is and the key keeps its position, with
\* the new value and expireAt = now + effective ttl; if the key was the oldest
\* and the store is at capacity, the set of any new key that follows evicts
\* it. Set on a key the Map does not hold, one deleted or purged before
\* included, puts it last.
C29_SetOfPresentKeyKeepsOrder ==
  [][\A k \in Keys, v \in Values, ttl \in TTLOptions :
       StoreSet(k, v, ttl)
         => IF Has(cache, k)
            THEN /\ Len(cache') = Len(cache)
                 /\ \A i \in 1 .. Len(cache) :
                      cache'[i] = IF i = IndexOf(cache, k)
                                  THEN [key |-> k, value |-> v,
                                        expireAt |-> now + EffectiveTTL(ttl, defaultTTL)]
                                  ELSE cache[i]
                 /\ (IndexOf(cache, k) = 1 /\ Truthy(maxSize) /\ Len(cache') >= maxSize)
                      => \A k2 \in Keys :
                           ~Has(cache', k2) => ~Has(Evict(cache', k2, maxSize), k)
            ELSE /\ cache'[Len(cache')].key = k
                 /\ \A i \in 1 .. Len(cache') - 1 : cache'[i].key # k]_vars

\* C21: once shutdown() has returned, every key reads NotFound for as long as
\* the caller calls neither setUntilNextRefresh nor fetchAll, whatever refresh
\* was completed or in flight when shutdown() was called.  Stated for the
\* step that follows shutdown().
C21_ShutdownClearsForGood ==
  [][(/\ last.op = "shutdown"
      /\ ~FetchAll("manual")
      /\ ~\E key \in BatchKeys, value \in SetValues, ttl \in LoaderTTLOptions :
            SetUntilNextRefresh(key, value, ttl))
       => \A k \in BatchKeys : CacheGetResult(cache', k, now') = NotFound]_vars

\* The constructor has just returned.
Constructed == last.op = "new"

\* A doFetchAll() call, and with it one call of the fetch function, starts in
\* this step: cycle c is new.
Starts(c) == c \in DOMAIN cycles' /\ cycles'[c].stage = "fetching" /\ ~Fetching(c)

\* Key k reads NotFound before this step and Found after it.
Appears(k) ==
  /\ CacheGetResult(cache, k, now) = NotFound
  /\ CacheGetResult(cache', k, now') # NotFound

\* C22 as stated: constructed with fetchOnStart false, every key reads NotFound
\* until a timer tick or a manual fetchAll.  Stated for the step that follows
\* the constructor.
C22_NotFoundUntilFirstFetch ==
  [][(Constructed /\ last.fetchOnStart = <<FALSE>>
        /\ ~FetchAll("manual") /\ ~FetchAll("timer"))
       => \A k \in BatchKeys : CacheGetResult(cache', k, now') = NotFound]_vars

\* C22, amended: when the constructor returns the store is empty and, with
\* fetchOnStart true or absent, exactly one bulk fetch has been called and is
\* registered, with fetchOnStart false none; a key comes to read Found only
\* through setUntilNextRefresh of that key or through the resumption of a
\* doFetchAll(), and a bulk fetch is called only by a fetchAll trigger; and
\* when a refresh succeeds with a batch within the capacity, every key of the
\* batch reads the value fetched for it.
C22_FetchOnStart ==
  /\ [](Constructed
          => /\ cache = << >>
             /\ IF last.fetchOnStart \in {NoOption, <<TRUE>>}
                THEN /\ Cardinality(DOMAIN cycles) = 1
                     /\ DOMAIN cycles = FetchingCycles
                     /\ currentFetch \in DOMAIN cycles
                ELSE /\ cycles = EmptyMap
                     /\ currentFetch = 0)
  /\ [][/\ \A k \in BatchKeys :
             Appears(k)
               => \/ \E value \in SetValues, ttl \in LoaderTTLOptions :
                       SetUntilNextRefresh(k, value, ttl)
                  \/ \E c \in DOMAIN cycles, r \in BatchResults : DoFetchAllResume(c, r)
        /\ (\E c \in 1 .. MaxFetches : Starts(c))
             => FetchAll("manual") \/ FetchAll("timer")
        /\ \A c \in DOMAIN cycles, b \in Batches :
             (/\ DoFetchAllResume(c, BatchSuccess(b))
              /\ (~Truthy(maxSize) \/ Cardinality(BatchKeysOf(b)) <= maxSize))
               => \A k \in BatchKeysOf(b) :
                    CacheGetResult(cache', k, now') = Found(LastValue(b, k))]_vars

\* C22 witness: a loader constructed with fetchOnStart false: no bulk fetch has
\* been called and the store is empty.
C22_Witness ==
  /\ Constructed
  /\ last.fetchOnStart = <<FALSE>>
  /\ cycles = EmptyMap
  /\ cache = << >>

\* C23 as stated: the interval is armed exactly when a refreshInterval greater
\* than zero is configured; with refreshInterval zero or left out it is not
\* armed, and no refresh starts by itself after construction.
C23_TimerOnlyWhenConfigured ==
  /\ [](Constructed
          => (timer <=> (last.refreshInterval # NoOption /\ last.refreshInterval[1] > 0)))
  /\ [][FetchAll("timer") => timer]_vars

\* C23, amended: the interval is armed exactly when the effective
\* refreshInterval, the option or 300000 ms when the option is left out, is
\* greater than zero: only a configured zero leaves it unarmed.  A refresh
\* starts by itself only while the interval is armed, and an interval that is
\* not armed is never armed later.
C23_TimerWhenIntervalPositive ==
  /\ [](Constructed
          => (timer <=> (IF last.refreshInterval = NoOption
                         THEN DefaultRefreshInterval
                         ELSE last.refreshInterval[1]) > 0))
  /\ [][/\ FetchAll("timer") => timer
        /\ ~timer => ~timer']_vars

\* C23 witness: a loader constructed without the refreshInterval option, whose
\* interval is armed.
C23_Witness ==
  /\ Constructed
  /\ last.refreshInterval = NoOption
  /\ timer

Attaches(c) == c \in DOMAIN cycles /\ c \in DOMAIN cycles'
                 /\ cycles'[c].attached = cycles[c].attached + 1

\* C25 as stated: whenever a fetchAll call has resolved the handle is null, and
\* a fetchAll trigger never attaches to a cycle that has settled: it attaches
\* to a cycle in flight or starts a fresh one.
C25_HandleClearedOnSettle ==
  [][/\ last'.op = "resolved" => currentFetch' = 0
     /\ \A c \in DOMAIN cycles :
          (FetchAll("manual") /\ Attaches(c)) => Fetching(c)]_vars

\* C25, amended: the finally block of the fetchAll call that started a cycle
\* clears the handle, which is that cycle's, after a success and after a
\* failure alike, and that call resolves with the handle null; a cycle whose
\* handle was cleared is never the handle again and no call attaches to it;
\* and a fetchAll trigger that finds the handle null starts exactly one fresh
\* cycle and registers it.
C25_HandleClearedByFinally ==
  /\ [](\A c \in DOMAIN cycles : cycles[c].stage = "cleared" => currentFetch # c)
  /\ [][/\ \A c \in 1 .. MaxFetches :
             FetchAllFinally(c)
               => /\ currentFetch = c
                  /\ currentFetch' = 0
                  /\ cycles[c].result \in {"ok", "error"}
                  /\ last' = [op |-> "resolved", role |-> "initiator",
                              result |-> cycles[c].result]
        /\ \A c \in DOMAIN cycles :
             Attaches(c) => c = currentFetch /\ cycles[c].stage # "cleared"
        /\ \A trigger \in {"manual", "timer"} :
             (FetchAll(trigger) /\ currentFetch = 0)
               => /\ Cardinality({c \in 1 .. MaxFetches : Starts(c)}) = 1
                  /\ Starts(currentFetch')]_vars

\* C25 witness: the fetchAll call that started a cycle has resolved after the
\* bulk fetch failed, and the handle is null.
C25_Witness ==
  /\ last = [op |-> "resolved", role |-> "initiator", result |-> "error"]
  /\ currentFetch = 0

\* A getSync(key) step of either loader.
GetSyncStep(key) == LoaderGetSync(key) \/ BatchGetSync(key)

C26_BatchWitness ==
  /\ instance = "TTLCacheWithBatchFetch"
  /\ last.op = "getSync"
  /\ last.result = Found(1)
  /\ Fetching(currentFetch)

\* A step of a TTLCacheWithBatchFetch that is called with the key SINGLE_KEY
\* only and whose bulk fetch delivers one-entry batches for that key.
BatchStepOnSingleKey ==
  \/ Tick
  \/ FetchAll("manual")
  \/ FetchAll("timer")
  \/ \E c \in 1 .. MaxFetches, v \in Values :
       DoFetchAllResume(c, BatchSuccess(<< <<SINGLE_KEY, v>> >>))
  \/ \E c \in 1 .. MaxFetches : DoFetchAllResume(c, BatchError)
  \/ \E c \in 1 .. MaxFetches : FetchAllFinally(c)
  \/ \E c \in 1 .. MaxFetches : FetchAllReturn(c)
  \/ BatchGetSync(SINGLE_KEY)
  \/ BatchGetRead(SINGLE_KEY)
  \/ BatchGetWait(SINGLE_KEY)
  \/ \E c \in 1 .. MaxFetches : BatchGetResume(c, SINGLE_KEY)
  \/ \E value \in SetValues, ttl \in TTLOptions : SetUntilNextRefresh(SINGLE_KEY, value, ttl)
  \/ BatchClear
  \/ BatchCleanup
  \/ Shutdown

\* C27: every step of a TTLCacheWithSingleFetch, with what it returns, what it
\* stores and the cycles it starts, is the step of a TTLCacheWithBatchFetch
\* called with the sentinel key and fed one-entry batches; the store never
\* holds a key other than the sentinel, so at most one entry; and a successful
\* fetch of value v makes get and getSync return Found(v).
C27_SingleRefinesBatch ==
  /\ [](\A i \in 1 .. Len(cache) : cache[i].key = SINGLE_KEY)
  /\ [](Len(cache) <= 1)
  /\ [][/\ BatchStepOnSingleKey
        /\ \A c \in 1 .. MaxFetches, v \in Values :
             SingleFetchResume(c, SingleSuccess(v))
               => CacheGetResult(cache', SINGLE_KEY, now') = Found(v)]_vars

\* C27 witness: a get on the single-value loader, suspended on a refresh, has
\* returned the value that refresh fetched, with capacity 1.
C27_Witness ==
  /\ instance = "TTLCacheWithSingleFetch"
  /\ last.op = "get"
  /\ last.waited
  /\ last.result = Found(1)
  /\ maxSize = 1
  /\ cache # << >>

C34_GetRemovesOnlyExpiredKey ==
  [][\A k \in Keys :
       StoreGet(k)
         => IF Has(cache, k) /\ now > cache[IndexOf(cache, k)].expireAt
            THEN /\ Len(cache') = Len(cache) - 1
                 /\ \A i \in 1 .. Len(cache) :
                      /\ i < IndexOf(cache, k) => cache'[i] = cache[i]
                      /\ i > IndexOf(cache, k) => cache'[i - 1] = cache[i]
            ELSE cache' = cache]_vars

\* C34 witness: a get has returned NotFound and left in the Map the entry of
\* the other key, although that entry has expired too.
C34_Witness ==
  /\ last.op = "get"
  /\ last.result = NotFound
  /\ Len(cache) = 1
  /\ cache[1].key # last.key
  /\ now > cache[1].expireAt

\* A delete(key) step, a clear() step of any class.
DeleteStep(key) == StoreDelete(key) \/ LoaderDelete(key) \/ BatchDelete(key)
ClearStep == StoreClear \/ LoaderClear \/ BatchClear \/ SingleClear

\* C31: delete(k) and clear() can be called in every state, k missing or the
\* store empty included.  After delete(k) a read of k returns NotFound and the
\* entries of the other keys are what they were, in the same order; after
\* clear() a read of every key returns NotFound.  On the loaders they do the
\* same to the store and leave the registry, the fetches, the handle, the
\* cycles and the timer alone.
C31_DeleteAndClear ==
  /\ [](\A k \in Keys :
          /\ instance = "TTLCache" => ENABLED StoreDelete(k) /\ ENABLED StoreClear
          /\ instance = "TTLCacheBackedWithFetch" => ENABLED LoaderDelete(k) /\ ENABLED LoaderClear
          /\ instance = "TTLCacheWithBatchFetch" => ENABLED BatchDelete(k) /\ ENABLED BatchClear
          /\ instance = "TTLCacheWithSingleFetch" => ENABLED SingleClear)
  /\ [][/\ \A k \in Keys :
             DeleteStep(k)
               => /\ CacheGetResult(cache', k, now') = NotFound
                  /\ \A i \in 1 .. Len(cache') : cache'[i].key # k
                  /\ Len(cache') = Len(cache) - (IF Has(cache, k) THEN 1 ELSE 0)
                  /\ \A i \in 1 .. Len(cache) :
                       /\ (~Has(cache, k) \/ i < IndexOf(cache, k)) => cache'[i] = cache[i]
                       /\ (Has(cache, k) /\ i > IndexOf(cache, k)) => cache'[i - 1] = cache[i]
                  /\ UNCHANGED <<now, loaderVars, batchVars, configVars>>
        /\ ClearStep
             => /\ \A k \in Keys : CacheGetResult(cache', k, now') = NotFound
                /\ Len(cache') = 0
                /\ UNCHANGED <<now, loaderVars, batchVars, configVars>>]_vars

\* C31 witness: delete on a TTLCache has left the live entry of the other key
\* with its value and expiry.
C31_Witness ==
  /\ instance = "TTLCache"
  /\ last.op = "delete"
  /\ Len(cache) = 1
  /\ cache[1].key # last.key
  /\ cache[1].value = 2
  /\ cache[1].expireAt = 2
  /\ now = 1

\* C35: every PendingFetch in the registry belongs to a fetch chain not yet
\* finished, whose initiating get is still suspended, and its refCount is 1
\* plus the number of get calls that attached to it, none of which has
\* resumed, so refCount >= 1; the refCount of a registered PendingFetch
\* changes only by the + 1 of a get(key) that attaches to it.
C35_RefCount ==
  /\ [](\A key \in DOMAIN pendingFetches :
          /\ pendingFetches[key].refCount >= 1
          /\ pendingFetches[key].fetch \in DOMAIN fetches
          /\ fetches[pendingFetches[key].fetch].key = key
          /\ fetches[pendingFetches[key].fetch].initiator = 1
          /\ fetches[pendingFetches[key].fetch].stage \in {"inflight", "handled"}
          /\ pendingFetches[key].refCount
               = 1 + fetches[pendingFetches[key].fetch].attached)
  /\ [][\A key \in DOMAIN pendingFetches \cap DOMAIN pendingFetches' :
          pendingFetches'[key].fetch = pendingFetches[key].fetch
            => /\ pendingFetches'[key].refCount >= pendingFetches[key].refCount
               /\ pendingFetches'[key].refCount # pendingFetches[key].refCount
                    => /\ GetAttach(key)
                       /\ pendingFetches'[key].refCount
                            = pendingFetches[key].refCount + 1]_vars

\* C35 witness: a get has attached to the registered fetch of its key, whose
\* refCount is 2.
C35_Witness ==
  \E key \in DOMAIN pendingFetches :
    /\ pendingFetches[key].refCount = 2
    /\ fetches[pendingFetches[key].fetch].attached = 1

\* A set, delete or clear step of TTLCacheBackedWithFetch.
LoaderWriteStep ==
  \/ \E key \in LoaderKeys, value \in SetValues, ttl \in LoaderTTLOptions :
       LoaderSet(key, value, ttl)
  \/ \E key \in LoaderKeys : LoaderDelete(key)
  \/ LoaderClear

\* C33: set, delete and clear on the loader leave the registry and every fetch
\* chain as they are, a fetch in flight stays in flight; and when a fetch of
\* key k succeeds with data d, whatever the store holds for k then, an entry
\* set during the flight or none after a delete or clear, the entry of k
\* becomes (d, now + defaultTTL) and a read of k returns Found(d), the
\* entries of the other keys staying as they are.
C33_WritesDoNotCancelFetch ==
  [][/\ LoaderWriteStep => pendingFetches' = pendingFetches /\ fetches' = fetches
     /\ \A f \in 1 .. MaxFetches, d \in FetchValues :
          ThenStep(f, FetchSuccess(d))
            => LET k == fetches[f].key IN
                 /\ Len(cache') = Len(cache) + (IF Has(cache, k) THEN 0 ELSE 1)
                 /\ cache'[IF Has(cache, k) THEN IndexOf(cache, k) ELSE Len(cache')]
                      = [key |-> k, value |-> d, expireAt |-> now + defaultTTL]
                 /\ \A i \in 1 .. Len(cache) : cache[i].key # k => cache'[i] = cache[i]
                 /\ CacheGetResult(cache', k, now') = Found(d)]_vars

\* C33 witness: a fetch of key 1 has succeeded and written its data over an
\* entry of key 1 that was put in the Map during the flight, before key 0 was
\* set: key 1 is ahead of key 0 and carries the later expiry.
C33_Witness ==
  /\ \E f \in DOMAIN fetches :
       /\ fetches[f].key = 1
       /\ fetches[f].stage = "handled"
       /\ fetches[f].result = FetchSuccess(1)
  /\ Len(cache) = 2
  /\ cache[1] = [key |-> 1, value |-> 1, expireAt |-> now + defaultTTL]
  /\ cache[2].key = 0
  /\ cache[2].expireAt < cache[1].expireAt

\* C32: when every fetch settles, every get of the keyed loader, suspended on
\* a fetch chain, returns, and every fetchAll and get of the batch loader,
\* suspended on a cycle, resolves: each chain and each cycle is finished, its
\* last suspended call resumed.  A get of the batch loader waits for the one
\* cycle it is suspended on: once that cycle's handle is cleared it can
\* resume, whatever newer cycle is in flight.
C32_EveryCallResolves ==
  /\ \A f \in 1 .. MaxFetches : (f \in DOMAIN fetches) ~> (f \notin DOMAIN fetches)
  /\ \A c \in 1 .. MaxFetches : (c \in DOMAIN cycles) ~> (c \notin DOMAIN cycles)
  /\ [](\A c \in DOMAIN cycles, k \in GetKeys :
          (cycles[c].stage = "cleared" /\ cycles[c].getters[k] > 0)
            => ENABLED BatchGetResume(c, k))
  /\ [](\A f \in DOMAIN fetches : Suspended(fetches[f]) > 0)
  /\ [](\A c \in DOMAIN cycles : cycles[c].stage = "cleared" => Waiting(cycles[c]) > 0)

\* C32 witness: a get of the batch loader that was suspended on a cycle has
\* resolved while the next cycle is in flight.
C32_Witness ==
  /\ instance = "TTLCacheWithBatchFetch"
  /\ last.op = "get"
  /\ last.waited
  /\ FetchingCycles # {}

====
